---- MODULE Spec2Model ----
(***************************************************************************)
(* Model of the PDF-intelligence backend (src/main.py): the ingest,        *)
(* delete_document and semantic_search handlers over the two store         *)
(* collections "document" and "chunk".                                     *)
(*                                                                         *)
(* lower(), split(), slicing and ObjectId parsing are computed character   *)
(* by character.  A score dot/(qn*dn) is kept exactly as the pair          *)
(* (num, den2) = (dot, qn^2 * dn^2); scores are compared by cross          *)
(* multiplication of squares (all terms are non-negative).                 *)
(*                                                                         *)
(* The store is the external MongoDB database: it is schema-less and       *)
(* outlives the process, so the initial collections may hold records that  *)
(* this program did not write (InitStores).  The handlers are run with the *)
(* store available (db is not None).                                       *)
(***************************************************************************)
EXTENDS Integers, Sequences, FiniteSets, TLC

VARIABLES document, chunk, nextOid, ing, del, resp, returned, clean

vars == <<document, chunk, nextOid, ing, del, resp, returned, clean>>

-----------------------------------------------------------------------------
(* Bounds of the model *)

\* files ingested over a run (and at most so many in one request)
MaxDocs == 1
\* distinct identifiers passed to delete_document over a run
MaxDeleted == 1
\* length of the repeated part of the long upload (two full windows)
LongLen == 1000

(* Program constants *)

\* main.py:63  step = 500
step == 500
\* main.py:137 .limit(2000)
ScanLimit == 2000
\* main.py:142 ch.get("text", "")[:500]
TextLimit == 500
\* main.py:150 [:800]
AnswerLimit == 800
\* main.py:116 top_k: int = 5
DefaultTopK == 5

-----------------------------------------------------------------------------
(* Python built-ins used by the handlers.  A str is a TLA+ string; its i-th  *)
(* character is SubSeq(s, i, i).                                              *)

Min(a, b) == IF a <= b THEN a ELSE b
Max(a, b) == IF a >= b THEN a ELSE b

At(s, i) == SubSeq(s, i, i)

UpperChars == "ABCDEFGOT"
LowerChars == "abcdefgot"
DigitChars == {"0", "1", "2", "3", "4", "5", "6", "7", "8", "9"}
AlphaChars == {At(UpperChars, i) : i \in 1..Len(UpperChars)} \cup
              {At(LowerChars, i) : i \in 1..Len(LowerChars)} \cup {"n"}
Whitespace == {" ", "\n", "\t"}

\* str.lower() of one character
LowerOf == [c \in {At(UpperChars, i) : i \in 1..Len(UpperChars)} |->
               At(LowerChars, CHOOSE i \in 1..Len(UpperChars) : At(UpperChars, i) = c)]

LowerChar(c) == IF c \in DOMAIN LowerOf THEN LowerOf[c] ELSE c

RECURSIVE Lower(_)
\* str.lower()
Lower(s) ==
    IF Len(s) = 0 THEN ""
    ELSE IF Len(s) = 1 THEN LowerChar(s)
    ELSE LET h == Len(s) \div 2
         IN  Lower(SubSeq(s, 1, h)) \o Lower(SubSeq(s, h + 1, Len(s)))

\* str.isalpha(), str.isalnum(): non-empty and every character in the class
IsAlpha(t) == Len(t) > 0 /\ \A i \in 1..Len(t) : At(t, i) \in AlphaChars
IsAlnum(t) == Len(t) > 0 /\ \A i \in 1..Len(t) : At(t, i) \in AlphaChars \cup DigitChars

\* str.split(): the maximal runs of non-whitespace characters, left to right
TokenStarts(s) ==
    {i \in 1..Len(s) :
        At(s, i) \notin Whitespace /\ (i = 1 \/ At(s, i - 1) \in Whitespace)}

TokenEnd(s, i) ==
    CHOOSE j \in i..Len(s) :
        /\ \A k \in i..j : At(s, k) \notin Whitespace
        /\ (j = Len(s) \/ At(s, j + 1) \in Whitespace)

TokenAt(s, i) == SubSeq(s, i, TokenEnd(s, i))

\* s[:k] for a list or str, k possibly negative
Prefix(s, k) ==
    IF k >= 0 THEN SubSeq(s, 1, Min(k, Len(s)))
    ELSE SubSeq(s, 1, Max(Len(s) + k, 0))

\* s[a:b] for 0 <= a <= b
Slice(s, a, b) == SubSeq(s, a + 1, Min(b, Len(s)))

\* range(0, n, st) as a sequence
Range(n, st) ==
    LET pts == {i \in 0..(n - 1) : i % st = 0}
    IN  [k \in 1..Cardinality(pts) |-> (k - 1) * st]

RECURSIVE SumOver(_, _)
SumOver(f, S) ==
    IF S = {} THEN 0
    ELSE LET x == CHOOSE y \in S : TRUE IN f[x] + SumOver(f, S \ {x})

RECURSIVE Join(_, _)
\* sep.join(parts)
Join(sep, parts) ==
    IF parts = <<>> THEN ""
    ELSE IF Len(parts) = 1 THEN parts[1]
    ELSE parts[1] \o sep \o Join(sep, Tail(parts))

-----------------------------------------------------------------------------
(* Identifiers: bson.ObjectId and its 24-character hex form *)

HexDigits == "0123456789abcdef"
HexChars == {At(HexDigits, i) : i \in 1..Len(HexDigits)} \cup
            {"A", "B", "C", "D", "E", "F"}

\* ObjectId(s) accepts a str of 24 hex characters, either case
ValidObjectId(s) == Len(s) = 24 /\ \A i \in 1..Len(s) : At(s, i) \in HexChars

\* ObjectId(s): the native id, kept as its canonical (lower-case) hex
ObjectId(s) == [t |-> "oid", v |-> Lower(s)]
\* a raw string used as _id
StrKey(s) == [t |-> "str", v |-> s]
\* str(oid)
StrOfOid(o) == o.v

\* the n-th id the store generates
GenOid(n) == [t |-> "oid", v |-> "00000000000000000000000" \o At(HexDigits, n + 1)]

-----------------------------------------------------------------------------
(* Chunker / vectorizer: main.py:62-70 and main.py:131-134 *)

EmptyMap == [t \in {} |-> 0]

\* terms = [t for t in s.lower().split() if t.isalpha() or t.isalnum()]
\* as the set of positions at which a kept token starts
KeptStarts(s) ==
    LET l == Lower(s)
    IN  {i \in TokenStarts(l) : IsAlpha(TokenAt(l, i)) \/ IsAlnum(TokenAt(l, i))}

\* the vector without the lower-casing
VectorizeNoLower(s) ==
    LET kept == {i \in TokenStarts(s) : IsAlpha(TokenAt(s, i)) \/ IsAlnum(TokenAt(s, i))}
    IN  [t \in {TokenAt(s, i) : i \in kept} |->
            Cardinality({i \in kept : TokenAt(s, i) = t})]

\* emb[t] = emb.get(t, 0.0) + 1.0 for every kept token t
Vectorize(s) ==
    LET l == Lower(s)
        kept == KeptStarts(s)
    IN  [t \in {TokenAt(l, i) : i \in kept} |->
            Cardinality({i \in kept : TokenAt(l, i) = t})]

\* windows one character too long
ChunksOverlap(text) ==
    LET r == Range(Len(text), step)
        list == [k \in 1..Len(r) |-> Slice(text, r[k], r[k] + step + 1)]
    IN  IF list = <<>> THEN <<"">> ELSE list

\* chunks = [text[i:i+step] for i in range(0, len(text), step)] or [""]
Chunks(text) ==
    LET r == Range(Len(text), step)
        list == [k \in 1..Len(r) |-> Slice(text, r[k], r[k] + step)]
    IN  IF list = <<>> THEN <<"">> ELSE list

\* content.decode("utf-8", errors="ignore") if content else "":
\* the bytes that are no valid UTF-8 are dropped ("#" stands for the byte 0xff)
InvalidBytes == {"#"}

RECURSIVE DropInvalid(_)
DropInvalid(b) ==
    IF Len(b) = 0 THEN ""
    ELSE IF Len(b) = 1 THEN (IF b \in InvalidBytes THEN "" ELSE b)
    ELSE LET h == Len(b) \div 2
         IN  DropInvalid(SubSeq(b, 1, h)) \o DropInvalid(SubSeq(b, h + 1, Len(b)))

Decode(content) == IF content = "" THEN "" ELSE DropInvalid(content)

\* the record inserted by db["chunk"].insert_one(chunk_doc)
ChunkDoc(doc_id, title, idx, ch) ==
    [doc_id |-> doc_id, text |-> ch, page |-> "None",
     embedding |-> [kind |-> "map", map |-> Vectorize(ch)],
     metadata |-> [title |-> title, chunk |-> idx]]

-----------------------------------------------------------------------------
(* Retriever / ranker: main.py:115-151 *)

\* ch.get("embedding", {})
EmbeddingOf(ch) ==
    IF ch.embedding.kind = "absent" THEN [kind |-> "map", map |-> EmptyMap]
    ELSE ch.embedding

\* Python truth value of a stored embedding
Truthy(d) ==
    CASE d.kind = "map" -> DOMAIN d.map # {}
      [] d.kind = "list" -> TRUE
      [] OTHER -> FALSE

ZeroScore == [err |-> FALSE, num |-> 0, den2 |-> 1]
Raised == [err |-> TRUE, num |-> 0, den2 |-> 1]

\* score(q_vec, d_vec), main.py:122-128; d.get / d.values() raise on a value that
\* is no dict
score(q_vec, d) ==
    IF DOMAIN q_vec = {} \/ ~Truthy(d) THEN ZeroScore
    ELSE IF d.kind # "map" THEN Raised
    ELSE LET dv == d.map
             prod == [t \in DOMAIN q_vec |->
                         q_vec[t] * (IF t \in DOMAIN dv THEN dv[t] ELSE 0)]
             dot == SumOver(prod, DOMAIN q_vec)
             qq == SumOver([t \in DOMAIN q_vec |-> q_vec[t] * q_vec[t]], DOMAIN q_vec)
             dd == SumOver([t \in DOMAIN dv |-> dv[t] * dv[t]], DOMAIN dv)
         IN  IF qq # 0 /\ dd # 0
             THEN [err |-> FALSE, num |-> dot, den2 |-> qq * dd]
             ELSE ZeroScore

\* comparison of two scores num/sqrt(den2), num >= 0
ScoreLt(a, b) == a.num * a.num * b.den2 < b.num * b.num * a.den2
ScoreEq(a, b) == a.num * a.num * b.den2 = b.num * b.num * a.den2

\* insertion that puts a later element before its equals
InsertDescTiesFirst(sorted, m) ==
    LET p == Cardinality({i \in 1..Len(sorted) : ScoreLt(m.score, sorted[i].score)})
    IN  SubSeq(sorted, 1, p) \o <<m>> \o SubSeq(sorted, p + 1, Len(sorted))

\* list.sort(key=score, reverse=True): stable, descending
InsertDesc(sorted, m) ==
    LET p == Cardinality({i \in 1..Len(sorted) : ~ScoreLt(sorted[i].score, m.score)})
    IN  SubSeq(sorted, 1, p) \o <<m>> \o SubSeq(sorted, p + 1, Len(sorted))

RECURSIVE SortDesc(_)
SortDesc(ms) ==
    IF ms = <<>> THEN <<>>
    ELSE InsertDesc(SortDesc(SubSeq(ms, 1, Len(ms) - 1)), ms[Len(ms)])

\* the projection appended to matches, main.py:140-145
Match(ch, s) ==
    [doc_id |-> ch.doc_id, text |-> Prefix(ch.text, TextLimit),
     score |-> [num |-> s.num, den2 |-> s.den2], metadata |-> ch.metadata]

\* s >= 0 in place of s > 0
IsHitGe(m) == m.score.num >= 0

\* if s > 0, main.py:139
IsHit(m) == m.score.num > 0

\* the scanned chunks, db["chunk"].find({}).limit(2000), each with its score
Scored(chunks, q_vec) ==
    LET scan == Prefix(chunks, ScanLimit)
    IN  [i \in 1..Len(scan) |-> [ch |-> scan[i], s |-> score(q_vec, EmbeddingOf(scan[i]))]]

\* the candidates in retrieval order: every scanned chunk with s > 0
Candidates(scored) ==
    SelectSeq([i \in 1..Len(scored) |-> Match(scored[i].ch, scored[i].s)], IsHit)

\* matches[:top_k]
Truncate(ms, top_k) == Prefix(ms, top_k)

\* the join without the cut
AnswerNoCut(ms) == Join(" ", [i \in 1..Len(ms) |-> ms[i].text])

\* " ".join(m["text"] for m in matches)[:800]
Answer(ms) == Prefix(Join(" ", [i \in 1..Len(ms) |-> ms[i].text]), AnswerLimit)

Failure(query, top_k) ==
    [op |-> "search", status |-> 500, query |-> query, top_k |-> top_k,
     matches |-> <<>>, answer |-> "", id |-> "", inserted |-> 0]

Success(query, top_k, matches) ==
    [op |-> "search", status |-> 200, query |-> query, top_k |-> top_k,
     matches |-> matches, answer |-> Answer(matches), id |-> "", inserted |-> 0]

\* the response of GET /search; an exception in score() is a 500
semantic_search(chunks, query, top_k) ==
    LET scored == Scored(chunks, Vectorize(query))
    IN  IF \E i \in 1..Len(scored) : scored[i].s.err
        THEN Failure(query, top_k)
        ELSE Success(query, top_k, Truncate(SortDesc(Candidates(scored)), top_k))

-----------------------------------------------------------------------------
(* Inputs of the requests and contents of the store at start-up *)

RECURSIVE Rep(_, _)
\* unit repeated up to n characters
Rep(unit, n) ==
    IF n <= Len(unit) THEN SubSeq(unit, 1, n) ELSE unit \o Rep(unit, n - Len(unit))

\* one digit, one undecodable byte, one token with punctuation, upper case
Mixed == "Cat1 #don't Dog"
\* "catdog catdog ... catdogCat1 #don't Dog": the window boundary at 500 falls
\* inside a word, and the last window is short
Long == Rep("catdog ", LongLen) \o Mixed

Files ==
    {[filename |-> "empty.txt", content |-> ""],
     [filename |-> "cat.txt", content |-> "cat dog cat"],
     [filename |-> "long.txt", content |-> Long]}

Requests == UNION {[1..n -> Files] : n \in 1..MaxDocs}

Queries == {"Catdog don't", "cat dog cat", "'"}

TopKs == {-1, 0, 1, DefaultTopK}

\* an identifier that is no ObjectId
JunkId == "abc"
\* 24 hex characters that no generated id has
RawHexId == "AAAAAAAAAAAAAAAAAAAAAAAA"

\* records written to the store by some other client: Documents whose _id is a
\* plain string, a well-formed chunk, and chunks whose embedding field is
\* missing, null, or a list
ExtDoc(key) ==
    [_id |-> key, title |-> "ext", pages |-> "None", table_count |-> 0,
     metadata |-> [size |-> 0]]

ExtChunk(doc_id, kind, map) ==
    [doc_id |-> doc_id, text |-> "cat", page |-> "None",
     embedding |-> [kind |-> kind, map |-> map],
     metadata |-> [title |-> "ext", chunk |-> 0]]

InitStores ==
    {[document |-> {ExtDoc(StrKey(RawHexId))},
      chunk |-> <<ExtChunk(RawHexId, "map", [t \in {"cat"} |-> 1])>>],
     [document |-> {ExtDoc(StrKey(JunkId))},
      chunk |-> <<ExtChunk(JunkId, "absent", EmptyMap), ExtChunk(JunkId, "null", EmptyMap),
                  ExtChunk(JunkId, "list", EmptyMap)>>]}

-----------------------------------------------------------------------------
(* State: the two collections, the store's id generator, the position and    *)
(* locals of the ingest handler (event loop) and of the delete handler       *)
(* (worker thread), and resp, the response a handler has sent and the client *)
(* has not received yet.  Responses are received one at a time: a handler    *)
(* step is taken when none is waiting (Ready), and Receive is always enabled *)
(* when one is, so no interleaving of the store operations is excluded.      *)
(* returned and clean record history:                                        *)
(* the identifiers for which a delete_document call has returned, and those  *)
(* among them whose delete_many ran while no ingest was writing chunks of    *)
(* that identifier.                                                          *)

Idle ==
    [pc |-> "idle", files |-> <<>>, inserted |-> 0, doc_id |-> "", title |-> "",
     text |-> "", chunks |-> <<>>, idx |-> 0]

DelIdle == [pc |-> "idle", doc_id |-> "", deleted_count |-> 0]

NoResp ==
    [op |-> "none", status |-> 0, query |-> "", top_k |-> 0, matches |-> <<>>,
     answer |-> "", id |-> "", inserted |-> 0]

\* the ids the store has generated so far, as list_documents shows them
Issued == {StrOfOid(GenOid(n)) : n \in 1..(nextOid - 1)}

\* the ingest handler is between create_document and the last insert_one of d
Writing(d) == ing.pc = "chunks" /\ ing.doc_id = d

\* no response is waiting to be received
Ready == resp.op = "none"

Init ==
    /\ \E st \in InitStores : document = st.document /\ chunk = st.chunk
    /\ nextOid = 1
    /\ ing = Idle
    /\ del = DelIdle
    /\ resp = NoResp
    /\ returned = {}
    /\ clean = {}

-----------------------------------------------------------------------------
(* POST /ingest, main.py:47-81 *)

\* create_document("document", doc): insert with a fresh native id, return str(id)
create_document(doc) == document' = document \cup {[doc EXCEPT !._id = GenOid(nextOid)]}

IngestRequest(fs) ==
    /\ Ready
    /\ ing.pc = "idle"
    /\ (nextOid - 1) + Len(fs) <= MaxDocs
    /\ ing' = [Idle EXCEPT !.pc = "loop", !.files = fs]
    /\ UNCHANGED <<document, chunk, nextOid, del, resp, returned, clean>>

\* main.py:55-64: read, decode, insert the Document, split the text
IngestFile ==
    /\ Ready
    /\ ing.pc = "loop"
    /\ ing.files # <<>>
    /\ LET f == Head(ing.files)
           text == Decode(f.content)
           doc == [_id |-> "unset", title |-> f.filename, pages |-> "None",
                   table_count |-> 0, metadata |-> [size |-> Len(f.content)]]
       IN  /\ create_document(doc)
           /\ ing' = [ing EXCEPT !.pc = "chunks", !.files = Tail(ing.files),
                                 !.doc_id = StrOfOid(GenOid(nextOid)),
                                 !.title = f.filename, !.text = text,
                                 !.chunks = Chunks(text), !.idx = 0]
    /\ nextOid' = nextOid + 1
    /\ UNCHANGED <<chunk, del, resp, returned, clean>>

\* main.py:65-79: one insert_one; after the last one, inserted += 1
IngestChunk ==
    /\ Ready
    /\ ing.pc = "chunks"
    /\ chunk' = Append(chunk, ChunkDoc(ing.doc_id, ing.title, ing.idx,
                                       ing.chunks[ing.idx + 1]))
    /\ ing' = IF ing.idx + 1 = Len(ing.chunks)
              THEN [ing EXCEPT !.pc = "loop", !.idx = ing.idx + 1,
                               !.inserted = ing.inserted + 1]
              ELSE [ing EXCEPT !.idx = ing.idx + 1]
    /\ UNCHANGED <<document, nextOid, del, resp, returned, clean>>

\* main.py:81
IngestReturn ==
    /\ Ready
    /\ ing.pc = "loop"
    /\ ing.files = <<>>
    /\ resp' = [NoResp EXCEPT !.op = "ingest", !.status = 200,
                              !.inserted = ing.inserted]
    /\ ing' = Idle
    /\ UNCHANGED <<document, chunk, nextOid, del, returned, clean>>

-----------------------------------------------------------------------------
(* DELETE /documents/{doc_id}, main.py:92-108 *)

\* the key without the fallback, and without the conversion
DeleteKeyNoFallback(doc_id) == ObjectId(doc_id)
DeleteKeyStrOnly(doc_id) == StrKey(doc_id)

\* main.py:96-102: the filter of the delete_one that is executed
DeleteKey(doc_id) ==
    IF ValidObjectId(doc_id) THEN ObjectId(doc_id) ELSE StrKey(doc_id)

\* db["document"].delete_one({"_id": key})
DeleteOne(doc_id) ==
    /\ Ready
    /\ del.pc = "idle"
    /\ Cardinality(returned \cup {doc_id}) <= MaxDeleted
    /\ LET hit == {d \in document : d._id = DeleteKey(doc_id)}
       IN  /\ document' = document \ hit
           /\ del' = [pc |-> "chunks", doc_id |-> doc_id,
                      deleted_count |-> Cardinality(hit)]
    /\ UNCHANGED <<chunk, nextOid, ing, resp, returned, clean>>

\* no cascade
KeepAll(chunks, doc_id) == chunks

\* db["chunk"].delete_many({"doc_id": doc_id})
DeleteMany(chunks, doc_id) ==
    LET Other(c) == c.doc_id # doc_id IN SelectSeq(chunks, Other)

\* main.py:104-108
DeleteChunks ==
    /\ Ready
    /\ del.pc = "chunks"
    /\ chunk' = DeleteMany(chunk, del.doc_id)
    /\ resp' = [NoResp EXCEPT !.op = "delete",
                              !.status = IF del.deleted_count = 0 THEN 404 ELSE 200,
                              !.id = del.doc_id]
    /\ returned' = returned \cup {del.doc_id}
    /\ clean' = IF Writing(del.doc_id) THEN clean ELSE clean \cup {del.doc_id}
    /\ del' = DelIdle
    /\ UNCHANGED <<document, nextOid, ing>>

-----------------------------------------------------------------------------
(* GET /search, main.py:115-151 *)

Search(query, top_k) ==
    /\ Ready
    /\ resp' = semantic_search(chunk, query, top_k)
    /\ UNCHANGED <<document, chunk, nextOid, ing, del, returned, clean>>

-----------------------------------------------------------------------------
(* The client receives the response *)

Receive ==
    /\ ~Ready
    /\ resp' = NoResp
    /\ UNCHANGED <<document, chunk, nextOid, ing, del, returned, clean>>

-----------------------------------------------------------------------------

Next ==
    \/ \E fs \in Requests : IngestRequest(fs)
    \/ IngestFile
    \/ IngestChunk
    \/ IngestReturn
    \/ \E id \in Issued \cup {JunkId, RawHexId} : DeleteOne(id)
    \/ DeleteChunks
    \/ \E q \in Queries, k \in TopKs : Search(q, k)
    \/ Receive

Spec == Init /\ [][Next]_vars

-----------------------------------------------------------------------------
(* Properties *)

\* the stored chunks of document d, in store order
ChunksOf(d) == LET Mine(c) == c.doc_id = d IN SelectSeq(chunk, Mine)

\* a search has just answered normally
Searched == resp.op = "search" /\ resp.status = 200

\* stored chunk c is the chunk match m was projected from
IsChunkOf(c, m) == c.doc_id = m.doc_id /\ c.metadata = m.metadata

\* C1: once a document has been ingested and delete_document has been called with
\* the id the ingestion gave it, the Document record is gone, no chunk with that
\* doc_id is stored, and no search returns a match with that doc_id.
C1_RoundTrip ==
    \A d \in clean \cap Issued :
        /\ ~\E doc \in document : doc._id = ObjectId(d)
        /\ \A i \in 1..Len(chunk) : chunk[i].doc_id # d
        /\ resp.op = "search" => \A i \in 1..Len(resp.matches) : resp.matches[i].doc_id # d

\* an ingested document was deleted, and a later search still finds other chunks
C1_Witness ==
    /\ \E d \in clean \cap Issued : TRUE
    /\ Searched
    /\ Len(resp.matches) > 0

\* C2: a text of length L is persisted as max(1, ceil(L/500)) chunks, indexed
\* 0..n-1, each of at most 500 characters and only the last one shorter, whose
\* texts concatenated give the text back; the empty text gives one chunk with
\* empty text and empty embedding.
C2_Chunking ==
    (ing.pc \in {"chunks", "loop"} /\ ing.doc_id # "") =>
        LET L == Len(ing.text)
            n == Max(1, (L + 499) \div 500)
            mine == ChunksOf(ing.doc_id)
            done == ing.pc = "loop"
            untouched == ing.doc_id \notin returned
        IN  /\ Len(ing.chunks) = n
            /\ \A i \in 1..n : Len(ing.chunks[i]) <= 500
            /\ \A i \in 1..(n - 1) : Len(ing.chunks[i]) = 500
            /\ Join("", ing.chunks) = ing.text
            /\ untouched =>
                 /\ Len(mine) = ing.idx
                 /\ \A i \in 1..Len(mine) :
                      mine[i].metadata.chunk = i - 1 /\ mine[i].text = ing.chunks[i]
            /\ (untouched /\ done) => Len(mine) = n
            /\ (untouched /\ done /\ L = 0) =>
                 mine[1].text = "" /\ mine[1].embedding = [kind |-> "map", map |-> EmptyMap]

\* a text of three windows has been written completely
C2_Witness ==
    /\ ing.pc = "loop"
    /\ Len(ing.text) > 1000
    /\ ing.doc_id \notin returned
    /\ Len(ChunksOf(ing.doc_id)) = 3

\* C3: the returned matches are in non-increasing order of score, and matches of
\* equal score are in the order in which their chunks were retrieved.
C3_Ranking ==
    Searched =>
        \A i, j \in 1..Len(resp.matches) :
            i < j =>
                /\ ~ScoreLt(resp.matches[i].score, resp.matches[j].score)
                /\ ScoreEq(resp.matches[i].score, resp.matches[j].score) =>
                     \E p, r \in 1..Len(chunk) :
                        /\ p < r
                        /\ IsChunkOf(chunk[p], resp.matches[i])
                        /\ IsChunkOf(chunk[r], resp.matches[j])

\* two matches of equal score were returned
C3_Witness ==
    /\ Searched
    /\ \E i, j \in 1..Len(resp.matches) :
          i < j /\ ScoreEq(resp.matches[i].score, resp.matches[j].score)

\* the number of stored chunks that score above zero for the query of resp
Hits == Cardinality({p \in 1..Len(chunk) :
            score(Vectorize(resp.query), EmbeddingOf(chunk[p])).num > 0})

\* C4 (as claimed): for every top_k the search accepts, at most top_k matches are
\* returned (none for a top_k below 1), all hits when there are fewer than top_k,
\* and none for top_k = 0.
C4_Original ==
    Searched =>
        /\ Len(resp.matches) <= Max(resp.top_k, 0)
        /\ Hits < resp.top_k => Len(resp.matches) = Hits
        /\ resp.top_k = 0 => resp.matches = <<>>

\* C5: score is 0 when the query vector is empty, the chunk vector is empty, or
\* they share no term; only chunks with score > 0 are returned, so a returned
\* chunk shares a token with the query and a query without kept tokens returns
\* nothing.
C5_ZeroScore ==
    Searched =>
        LET q == Vectorize(resp.query)
        IN  /\ \A p \in 1..Len(chunk) :
                 LET d == EmbeddingOf(chunk[p])
                 IN  (d.kind = "map" /\ (DOMAIN q) \cap (DOMAIN d.map) = {}) =>
                        (~score(q, d).err /\ score(q, d).num = 0)
            /\ \A i \in 1..Len(resp.matches) :
                 /\ resp.matches[i].score.num > 0
                 /\ \E p \in 1..Len(chunk) :
                       /\ IsChunkOf(chunk[p], resp.matches[i])
                       /\ (DOMAIN q) \cap (DOMAIN chunk[p].embedding.map) # {}
            /\ DOMAIN q = {} => resp.matches = <<>>

\* a search returned some chunk and left out one that shares no token with it
C5_Witness ==
    /\ Searched
    /\ Len(resp.matches) > 0
    /\ \E p \in 1..Len(chunk) :
          /\ DOMAIN chunk[p].embedding.map # {}
          /\ (DOMAIN Vectorize(resp.query)) \cap (DOMAIN chunk[p].embedding.map) = {}
          /\ \A i \in 1..Len(resp.matches) : ~IsChunkOf(chunk[p], resp.matches[i])

\* C6 (as claimed): not-found is answered only if neither the delete by native id
\* nor the delete by raw string could delete anything, so a stored Document
\* whose _id equals the identifier, as native id or as raw string, is deleted.
C6_Original ==
    (resp.op = "delete" /\ resp.status = 404) =>
        ~\E doc \in document :
            \/ doc._id = StrKey(resp.id)
            \/ ValidObjectId(resp.id) /\ doc._id = ObjectId(resp.id)

\* C6 (amended): delete_document answers not-found exactly when its one delete_one
\* deleted nothing; that delete_one is by native id when the identifier converts
\* to one, and by raw string only when the conversion fails.  A stored Document
\* with that key is deleted and the call reports success.
C6_Fallback ==
    [][/\ (del.pc = "idle" /\ del'.pc = "chunks") =>
            LET id == del'.doc_id
                key == IF ValidObjectId(id) THEN ObjectId(id) ELSE StrKey(id)
                stored == \E doc \in document : doc._id = key
            IN  /\ stored => (del'.deleted_count = 1 /\ ~\E doc \in document' : doc._id = key)
                /\ ~stored => (del'.deleted_count = 0 /\ document' = document)
       /\ (del.pc = "chunks" /\ del'.pc = "idle") =>
            /\ resp'.op = "delete"
            /\ resp'.status = 404 <=> del.deleted_count = 0
            /\ resp'.status = 200 <=> del.deleted_count > 0
      ]_vars

\* a delete by raw string, after the conversion failed, reported success
C6_Witness ==
    /\ resp.op = "delete"
    /\ resp.status = 200
    /\ ~ValidObjectId(resp.id)

\* C7 (as claimed): a stored chunk whose embedding is missing or malformed never
\* makes a search fail; it scores 0 and is not returned.
C7_Original ==
    (resp.op = "search" /\
     \E p \in 1..Len(chunk) : chunk[p].embedding.kind \in {"absent", "null", "list"}) =>
        /\ resp.status = 200
        /\ \A i \in 1..Len(resp.matches) : \A p \in 1..Len(chunk) :
              IsChunkOf(chunk[p], resp.matches[i]) => chunk[p].embedding.kind = "map"

LowerAlnum == {At(LowerChars, i) : i \in 1..Len(LowerChars)} \cup {"n"} \cup DigitChars

\* the number of whitespace-delimited occurrences of t in l
Occ(l, t) ==
    Cardinality({i \in 1..(Len(l) - Len(t) + 1) :
        /\ SubSeq(l, i, i + Len(t) - 1) = t
        /\ (i = 1 \/ At(l, i - 1) \in Whitespace)
        /\ (i + Len(t) > Len(l) \/ At(l, i + Len(t)) \in Whitespace)})

\* map holds exactly the tokens of the lower-cased text made of letters and
\* digits only, each with its number of occurrences in that text
WellVectorized(text, map) ==
    LET l == Lower(text)
    IN  /\ \A t \in DOMAIN map :
             /\ Len(t) > 0
             /\ \A k \in 1..Len(t) : At(t, k) \in LowerAlnum
             /\ map[t] = Occ(l, t)
             /\ map[t] > 0
        /\ \A i \in TokenStarts(l) :
             (\A k \in i..TokenEnd(l, i) : At(l, k) \in LowerAlnum) =>
                 TokenAt(l, i) \in DOMAIN map

\* C8: the vector of an ingested chunk maps each kept token of that chunk's own
\* slice to its number of occurrences there, a token with any other character
\* than letters and digits gives no key, "cat dog cat" gives {cat: 2, dog: 1},
\* and the query is vectorized by the same rule (a query equal to a chunk's text
\* has cosine 1 with that chunk).
C8_Vectors ==
    /\ (Ready /\ chunk # <<>> /\ chunk[Len(chunk)].doc_id \in Issued) =>
          LET c == chunk[Len(chunk)]
          IN  /\ c.embedding.kind = "map"
              /\ WellVectorized(c.text, c.embedding.map)
              /\ c.text = "cat dog cat" =>
                    c.embedding.map = [t \in {"cat", "dog"} |-> IF t = "cat" THEN 2 ELSE 1]
    /\ Searched =>
          \A i \in 1..Len(resp.matches) : \A p \in 1..Len(chunk) :
              (IsChunkOf(chunk[p], resp.matches[i]) /\ chunk[p].text = resp.query) =>
                  resp.matches[i].score.num * resp.matches[i].score.num
                      = resp.matches[i].score.den2

\* the slice "Cat1 don't Dog" was stored with the vector {cat1: 1, dog: 1}
C8_Witness ==
    \E p \in 1..Len(chunk) :
        /\ chunk[p].doc_id \in Issued
        /\ chunk[p].text = "Cat1 don't Dog"
        /\ DOMAIN chunk[p].embedding.map = {"cat1", "dog"}

RECURSIVE SpaceJoined(_)
\* the texts of the matches, in order, separated by single spaces
SpaceJoined(ms) ==
    IF ms = <<>> THEN ""
    ELSE IF Len(ms) = 1 THEN ms[1].text
    ELSE SpaceJoined(SubSeq(ms, 1, Len(ms) - 1)) \o " " \o ms[Len(ms)].text

\* C9: the answer is the texts of exactly the returned matches, in ranked order,
\* joined by single spaces and cut to its first 800 characters; it is empty when
\* there is no match.
C9_Answer ==
    Searched =>
        LET full == SpaceJoined(resp.matches)
        IN  /\ resp.answer = SubSeq(full, 1, Min(800, Len(full)))
            /\ resp.matches = <<>> => resp.answer = ""

\* two matches whose joined texts exceed 800 characters were returned
C9_Witness ==
    /\ Searched
    /\ Len(resp.matches) >= 2
    /\ Len(SpaceJoined(resp.matches)) > 800
    /\ Len(resp.answer) = 800

\* C10 (as claimed): once a delete_document call for d has returned, no chunk with
\* doc_id = d is stored, whatever ingest was doing meanwhile.
C10_Original ==
    \A d \in returned : \A i \in 1..Len(chunk) : chunk[i].doc_id # d

\* C10 (amended): once a delete_document call for d has returned whose delete_many
\* ran while no ingest was writing the chunks of d, no chunk with doc_id = d is
\* stored in any later state.
C10_NoOrphans ==
    \A d \in clean : \A i \in 1..Len(chunk) : chunk[i].doc_id # d

\* the delete of an ingested document has just reported success, and chunks of
\* other documents are still stored
C10_Witness ==
    /\ resp.op = "delete"
    /\ resp.status = 200
    /\ resp.id \in clean \cap Issued
    /\ chunk # <<>>

====
